---- MODULE Spec2Model ----
(***************************************************************************)
(* Model of the PythonSerialMonitor ingestion pipeline:                    *)
(*   DataBufferer      (serial_comm/data_bufferer.py)      "Multiplexer"   *)
(*   FileWriterWorker  (serial_comm/file_writer_worker.py) "Recorder"      *)
(*   MainWindow        (gui/main_window.py)  start/stop recording wiring   *)
(*                                                                         *)
(* Every handler is a function from the object's fields (a record) to the  *)
(* fields after the call plus the signals it emitted.  The specifications  *)
(* SpecMux and SpecRec drive one object with complete calls; Spec runs the *)
(* GUI thread, the bufferer thread and the writer thread together.         *)
(***************************************************************************)
EXTENDS Integers, Sequences, FiniteSets, TLC

VARIABLES
    bufferer,      \* DataBufferer fields
    writer,        \* FileWriterWorker fields
    disk,          \* file system: path -> sequence of lines
    nextId,        \* number of the next record the device produces
    arity,         \* number of fields of the device's records
    loggerOut,     \* batches carried by logger_data_ready, in emission order
    recordingOut,  \* batches carried by recording_data_ready, in emission order
    ingested,      \* records handed to process_raw_data, in call order
    accepted,      \* records handed to process_raw_data while _is_recording
    lastCall,      \* the last FileWriterWorker call: what it was given and did
    session,       \* bookkeeping of the current recording session
    gui,           \* MainWindow fields and the state of its two record buttons
    passed,        \* the sequence values MainWindow gave the Recorder
    bufQ,          \* bufferer thread: queued data_received deliveries
    guiQ,          \* GUI thread: queued message_count_updated deliveries
    wrQ,           \* writer thread: queued append_data / finalize_recording
    bufPc,         \* bufferer thread: where its running handler stands
    bufLocal,      \* bufferer thread: the running handler's local list
    worker,        \* SerialWorker fields
    link,          \* the device's bytes, the worker thread's queue, what was framed
    plot,          \* PlotDataProcessor fields
    view           \* the records fed to the PlotDataProcessor and its last call

muxVars == <<bufferer, loggerOut, recordingOut, ingested, accepted>>
recVars == <<writer, disk, lastCall, session>>
sysVars == <<gui, passed, bufQ, guiQ, wrQ, bufPc, bufLocal>>
portVars == <<worker, link>>
plotVars == <<plot, view>>
devVars == <<arity, portVars, plotVars>>
vars == <<bufferer, writer, disk, nextId, arity, loggerOut, recordingOut, ingested,
          accepted, lastCall, session, gui, passed, bufQ, guiQ, wrQ, bufPc, bufLocal,
          worker, link, plot, view>>

----------------------------------------------------------------------------
(* Bounds                                                                  *)

MaxRecords == 3
MaxBatch == 2
MaxArity == 2
MaxCount == 1
MaxSessions == 2
MaxStream == 2
MaxQueued == 1
MaxSamples == 3
MaxWindow == 2
MaxStaged == 2
MaxLineStream == 4
MaxOutbound == 1

----------------------------------------------------------------------------
(* Records and lines.  A line of text is the sequence of its comma         *)
(* separated fields; a numeric field is <<"num", v>> and the header field  *)
(* "channel<i>" is <<"channel", i>>.                                       *)

Range(s) == {s[i] : i \in 1..Len(s)}

RECURSIVE Flatten(_)
Flatten(batches) ==
    IF batches = <<>> THEN <<>> ELSE Head(batches) \o Flatten(Tail(batches))

Min(a, b) == IF a < b THEN a ELSE b

\* the record numbered id with n fields: "id,0,...,0"
MkRecord(id, n) == [i \in 1..n |-> IF i = 1 THEN <<"num", id>> ELSE <<"num", 0>>]

\* the batches the device can deliver next: fresh records of its arity
Batches ==
    { [j \in 1..n |-> MkRecord(nextId + j - 1, arity)] :
        n \in 1..Min(MaxBatch, MaxRecords - nextId + 1) }

----------------------------------------------------------------------------
(* DataBufferer                                                            *)

DataBufferer_init ==
    [logger_buffer |-> <<>>, recording_buffer |-> <<>>, is_recording |-> FALSE,
     recording_timer_active |-> FALSE]

\* result of a handler: the fields after it and the signals it emitted
MuxResult(d, lg, rec) ==
    [d |-> d, logger_data_ready |-> lg, recording_data_ready |-> rec]

process_raw_data_nolog(d, data_list) ==
    MuxResult(
        IF d.is_recording
        THEN [d EXCEPT !.recording_buffer = @ \o data_list]
        ELSE d, <<>>, <<>>)

process_raw_data_always_records(d, data_list) ==
    MuxResult([d EXCEPT !.logger_buffer = @ \o data_list,
                        !.recording_buffer = @ \o data_list],
              <<>>, <<>>)

process_raw_data(d, data_list) ==
    MuxResult(
        IF d.is_recording
        THEN [d EXCEPT !.logger_buffer = @ \o data_list,
                       !.recording_buffer = @ \o data_list]
        ELSE [d EXCEPT !.logger_buffer = @ \o data_list],
        <<>>, <<>>)

flush_logger_buffer(d) ==
    IF d.logger_buffer # <<>>
    THEN MuxResult([d EXCEPT !.logger_buffer = <<>>], <<d.logger_buffer>>, <<>>)
    ELSE MuxResult(d, <<>>, <<>>)

flush_recording_buffer(d) ==
    IF d.recording_buffer # <<>>
    THEN MuxResult([d EXCEPT !.recording_buffer = <<>>], <<>>, <<d.recording_buffer>>)
    ELSE MuxResult(d, <<>>, <<>>)

set_recording_status_noflush(d, status) ==
    MuxResult([d EXCEPT !.is_recording = status,
                        !.recording_timer_active = status], <<>>, <<>>)

set_recording_status(d, status) ==
    IF status
    THEN MuxResult([d EXCEPT !.is_recording = TRUE,
                             !.recording_timer_active = TRUE], <<>>, <<>>)
    ELSE flush_recording_buffer([d EXCEPT !.is_recording = FALSE,
                                          !.recording_timer_active = FALSE])

clear_recording_buffer(d) ==
    MuxResult([d EXCEPT !.recording_buffer = <<>>], <<>>, <<>>)

\* a complete DataBufferer call and the signals it emitted
MuxCall(r) ==
    /\ bufferer' = r.d
    /\ loggerOut' = loggerOut \o r.logger_data_ready
    /\ recordingOut' = recordingOut \o r.recording_data_ready

----------------------------------------------------------------------------
(* FileWriterWorker.  An attribute that is not set yet, and the file       *)
(* handle None, are the empty tuple; a set value v is <<v>>.  A path of    *)
(* the disk is <<>> while no such file exists and <<lines>> otherwise.     *)

Paths == {"serial_log.csv"}

None == <<>>

FileLines(dk, p) == IF dk[p] = <<>> THEN <<>> ELSE dk[p][1]

WriteLines(dk, p, lines) == [dk EXCEPT ![p] = <<FileLines(dk, p) \o lines>>]

\* ",".join(f"channel{i+1}" for i in range(num_channels))
Header(num_channels) == [i \in 1..num_channels |-> <<"channel", i>>]

\* line.startswith('channel')
StartsWithChannel(line) == Len(line) > 0 /\ line[1][1] = "channel"

\* finished = Signal(bool, str): the two counts stand for the numbers in the text
Status(success, text, expected, actual) == <<success, text, expected, actual>>

FileWriterWorker_init ==
    [file |-> None, stop_pending |-> FALSE, file_name |-> <<>>,
     start_message_count |-> <<>>, end_message_count |-> <<>>]

\* result of a handler: fields and disk after it, the signals it emitted, whether
\* it raised out of the slot, the lines it put on disk, whether an I/O call failed
RecResult(w, dk, finished, all_data_written, raised, written, io_error) ==
    [w |-> w, disk |-> dk, finished |-> finished,
     all_data_written |-> all_data_written, raised |-> raised,
     written |-> written, io_error |-> io_error]

FileWriterWorker_start_recording(w, dk, file_name, start_message_count, env) ==
    LET w1 == [w EXCEPT !.file_name = <<file_name>>]
    IN  IF env.open = "fail"
        THEN RecResult(w1, dk, <<Status(FALSE, "Error starting recording", 0, 0)>>,
                       0, FALSE, <<>>, TRUE)
        ELSE RecResult(
                [w1 EXCEPT !.file = <<[path |-> file_name,
                                       pos |-> Len(FileLines(dk, file_name)),
                                       closed |-> FALSE]>>,
                           !.start_message_count = <<start_message_count>>,
                           !.stop_pending = FALSE],
                WriteLines(dk, file_name, <<>>),
                <<Status(TRUE, "Recording started", 0, 0)>>,
                0, FALSE, <<>>, FALSE)

FileWriterWorker_stop_recording_closes(w, end_message_count) ==
    [w EXCEPT !.stop_pending = TRUE, !.end_message_count = <<end_message_count>>,
              !.file = None]

FileWriterWorker_stop_recording(w, end_message_count) ==
    [w EXCEPT !.stop_pending = TRUE, !.end_message_count = <<end_message_count>>]

\* the verification of finalize_stop (lines 80-94), the file already closed
VerifyCount(w, dk, env) ==
    IF \/ env.verify = "fail"
       \/ dk[w.file_name[1]] = <<>>
       \/ w.start_message_count = <<>>
    THEN <<Status(FALSE, "Recording stopped, but verification failed", 0, 0)>>
    ELSE LET lines == FileLines(dk, w.file_name[1])
             actual_lines_written ==
                 IF Len(lines) > 0 /\ StartsWithChannel(lines[1])
                 THEN Len(lines) - 1 ELSE Len(lines)
             expected_lines == w.end_message_count[1] - w.start_message_count[1]
         IN  IF actual_lines_written # expected_lines
             THEN <<Status(FALSE, "Recording stopped with data loss",
                           expected_lines, actual_lines_written)>>
             ELSE <<Status(TRUE, "Recording stopped", 0, actual_lines_written)>>

finalize_stop(w, dk, env) ==
    IF w.end_message_count = <<>>
    THEN \* the first print reads an attribute that was never assigned
         RecResult(w, dk, <<>>, 0, TRUE, <<>>, FALSE)
    ELSE IF w.file # None
    THEN IF env.close = "fail" /\ ~w.file[1].closed
         THEN RecResult([w EXCEPT !.file = <<[w.file[1] EXCEPT !.closed = TRUE]>>],
                        dk, <<Status(FALSE, "Error closing file", 0, 0)>>,
                        0, FALSE, <<>>, TRUE)
         ELSE LET w1 == [w EXCEPT !.file = None, !.stop_pending = FALSE]
                  st == VerifyCount(w1, dk, env)
              IN  RecResult(w1, dk, st, 1, FALSE, <<>>,
                            env.verify = "fail" \/ dk[w.file_name[1]] = <<>>)
    ELSE RecResult(w, dk,
                   <<Status(FALSE, "Recording stopped, but no file was open.", 0, 0)>>,
                   0, FALSE, <<>>, FALSE)

finalize_recording(w, dk, env) == finalize_stop(w, dk, env)

AppendOutput_always_header(f, data_lines) ==
    (IF data_lines # <<>>
     THEN <<Header(Len(data_lines[1]))>> ELSE <<>>) \o data_lines

\* what append_data writes: the header first if tell() == 0 and there is data
AppendOutput(f, data_lines) ==
    (IF f.pos = 0 /\ data_lines # <<>>
     THEN <<Header(Len(data_lines[1]))>> ELSE <<>>) \o data_lines

append_data(w, dk, data_lines, env) ==
    IF w.file = None
    THEN RecResult(w, dk, <<Status(FALSE, "Error: Recording not started.", 0, 0)>>,
                   0, FALSE, <<>>, FALSE)
    ELSE LET f == w.file[1]
             out == AppendOutput(f, data_lines)
         IN  IF f.closed \/ env.write = "fail"
             THEN \* the lines before the failing write reach the file
                  LET part == IF f.closed THEN <<>>
                              ELSE SubSeq(out, 1, Min(env.partial, Len(out) - 1))
                  IN  RecResult(
                          [w EXCEPT !.file = <<[f EXCEPT !.pos = @ + Len(part)]>>],
                          WriteLines(dk, f.path, part),
                          <<Status(FALSE, "Error appending data", 0, 0)>>,
                          0, FALSE, part, TRUE)
             ELSE LET w1 == [w EXCEPT !.file = <<[f EXCEPT !.pos = @ + Len(out)]>>]
                      dk1 == WriteLines(dk, f.path, out)
                  IN  IF w.stop_pending /\ data_lines = <<>>
                      THEN finalize_stop(w1, dk1, env)
                      ELSE RecResult(w1, dk1, <<>>, 0, FALSE, out, FALSE)

----------------------------------------------------------------------------
(* SerialWorker.  The device delivers bytes; a character of the text is    *)
(* one byte ("a", SP, LF) or the two bytes "L" "T" of a multi-byte UTF-8   *)
(* character, written "LT" once decoded.  A line is a sequence of          *)
(* characters.  _read_timer is "unset" until connect_port creates it.      *)

SP == "SP"

LF == "LF"

Chars == {"a", SP, LF, "LT"}

\* str.encode('utf-8')
encode(char) == IF char = "LT" THEN <<"L", "T">> ELSE <<char>>

RECURSIVE EncodeAll(_)
EncodeAll(text) ==
    IF text = <<>> THEN <<>> ELSE encode(Head(text)) \o EncodeAll(Tail(text))

\* bytes.decode('utf-8', errors='ignore') of one chunk: a lead byte without
\* its continuation byte, and a continuation byte without its lead, are dropped

RECURSIVE decode(_)
decode(b) ==
    IF b = <<>> THEN <<>>
    ELSE IF Head(b) = "L"
         THEN IF Len(b) >= 2 /\ b[2] = "T"
              THEN <<"LT">> \o decode(SubSeq(b, 3, Len(b)))
              ELSE decode(Tail(b))
    ELSE IF Head(b) = "T" THEN decode(Tail(b))
    ELSE <<Head(b)>> \o decode(Tail(b))

\* str.split('\n'): the segments between the newlines, one more than newlines
RECURSIVE split(_)
split(s) ==
    IF s = <<>> THEN << <<>> >>
    ELSE LET r == split(Tail(s))
         IN  IF Head(s) = LF THEN << <<>> >> \o r
             ELSE << <<Head(s)>> \o Head(r) >> \o Tail(r)

RECURSIVE lstrip(_)
lstrip(s) == IF s # <<>> /\ Head(s) = SP THEN lstrip(Tail(s)) ELSE s

RECURSIVE rstrip(_)
rstrip(s) ==
    IF s # <<>> /\ s[Len(s)] = SP THEN rstrip(SubSeq(s, 1, Len(s) - 1)) ELSE s

\* str.strip()
strip(s) == rstrip(lstrip(s))

\* for line in lines: line = line.strip(); if line: append
RECURSIVE StrippedNonEmpty(_)
StrippedNonEmpty(lines) ==
    IF lines = <<>> THEN <<>>
    ELSE LET l == strip(Head(lines))
         IN  (IF l = <<>> THEN <<>> ELSE <<l>>) \o StrippedNonEmpty(Tail(lines))

ReadMax == 4096

SerialWorker_init ==
    [serial_port |-> "none", is_running |-> FALSE, read_timer |-> "unset",
     emit_timer |-> "none", line_buffer |-> <<>>, data_buffer |-> <<>>]

\* the fields after a call, the port_status and data_received emissions in
\* order, the bytes taken from the device, and whether the call raised
WorkerResult(w, port_status, data_received, taken, raised) ==
    [w |-> w, port_status |-> port_status, data_received |-> data_received,
     taken |-> taken, raised |-> raised]

SerialWorker_connect_port(w, io) ==
    IF w.is_running THEN WorkerResult(w, <<>>, <<>>, 0, FALSE)
    ELSE IF io = "ok"
         THEN WorkerResult([w EXCEPT !.is_running = TRUE, !.serial_port = "open",
                                     !.read_timer = "active",
                                     !.emit_timer = "active"],
                           << <<TRUE, "Connected">> >>, <<>>, 0, FALSE)
         ELSE WorkerResult([w EXCEPT !.is_running = FALSE],
                           << <<FALSE, "Error">> >>, <<>>, 0, FALSE)

StopTimer(t) == IF t = "active" THEN "stopped" ELSE t

ClosePort(p) == IF p = "open" THEN "closed" ELSE p

SerialWorker_disconnect_port_keeps_reading(w) ==
    WorkerResult([w EXCEPT !.is_running = FALSE],
                 << <<FALSE, "Disconnected.">> >>, <<>>, 0, FALSE)

SerialWorker_disconnect_port(w) ==
    IF w.read_timer = "unset"
    THEN WorkerResult([w EXCEPT !.is_running = FALSE], <<>>, <<>>, 0, TRUE)
    ELSE WorkerResult([w EXCEPT !.is_running = FALSE,
                                !.read_timer = StopTimer(@),
                                !.emit_timer = StopTimer(@),
                                !.serial_port = ClosePort(@)],
                      << <<FALSE, "Disconnected.">> >>, <<>>, 0, FALSE)

\* pending: the bytes the device holds; in_waiting of them have arrived
SerialWorker_read_serial_data(w, pending, in_waiting, io) ==
    IF w.serial_port # "open" THEN WorkerResult(w, <<>>, <<>>, 0, FALSE)
    ELSE IF io # "ok"
         THEN LET d == SerialWorker_disconnect_port(w)
              IN  WorkerResult(d.w, << <<FALSE, "Serial Read Error">> >> \o d.port_status,
                               <<>>, 0, d.raised)
    ELSE IF in_waiting = 0 THEN WorkerResult(w, <<>>, <<>>, 0, FALSE)
    ELSE LET n == Min(in_waiting, ReadMax)
             data == decode(SubSeq(pending, 1, n))
             lines == split(w.line_buffer \o data)
             complete == SubSeq(lines, 1, Len(lines) - 1)
         IN  WorkerResult([w EXCEPT !.line_buffer = lines[Len(lines)],
                                    !.data_buffer = @ \o StrippedNonEmpty(complete)],
                          <<>>, <<>>, n, FALSE)

SerialWorker_emit_buffered_data(w) ==
    IF w.data_buffer # <<>>
    THEN WorkerResult([w EXCEPT !.data_buffer = <<>>], <<>>, <<w.data_buffer>>, 0, FALSE)
    ELSE WorkerResult(w, <<>>, <<>>, 0, FALSE)

SerialWorker_send(w, io) ==
    IF w.serial_port # "open" THEN WorkerResult(w, <<>>, <<>>, 0, FALSE)
    ELSE IF io = "ok" THEN WorkerResult(w, <<>>, <<>>, 0, FALSE)
    ELSE WorkerResult(w, << <<FALSE, "Send Error">> >>, <<>>, 0, FALSE)

----------------------------------------------------------------------------
(* PlotDataProcessor.  A deque is its items and its maxlen.  A record is   *)
(* the sequence of its comma separated fields; a field that is not a       *)
(* number is <<"bad">>.                                                    *)

LastN(s, n) == IF Len(s) <= n THEN s ELSE SubSeq(s, Len(s) - n + 1, Len(s))

\* deque(iterable, maxlen=maxlen)
deque(items, maxlen) == [items |-> LastN(items, maxlen), maxlen |-> maxlen]

\* deque.append
dq_append(d, v) == deque(Append(d.items, v), d.maxlen)

dq_extend_unbounded(d, vs) == [d EXCEPT !.items = @ \o vs]

\* deque.extend
dq_extend(d, vs) == deque(d.items \o vs, d.maxlen)

IncomingMax == 4000

PlotDataProcessor_init(window_size) ==
    [window_size |-> window_size, num_channels |-> 0, data_buffers |-> <<>>,
     x_data |-> deque(<<>>, window_size), current_sample_index |-> 0,
     incoming_data_buffer |-> deque(<<>>, IncomingMax)]

process_incoming_data(p, data_list) ==
    [p EXCEPT !.incoming_data_buffer = dq_extend(@, data_list)]

initialize_buffers(p, num_channels) ==
    [p EXCEPT !.num_channels = num_channels,
              !.data_buffers = [i \in 1..num_channels |-> deque(<<>>, p.window_size)],
              !.x_data = deque(<<>>, p.window_size)]

IsNumber(field) == field[1] = "num"

WellFormed(data_string) == \A i \in 1..Len(data_string) : IsNumber(data_string[i])

RECURSIVE NumericPrefix(_)
NumericPrefix(fields) ==
    IF fields = <<>> \/ ~IsNumber(Head(fields)) THEN <<>>
    ELSE <<Head(fields)[2]>> \o NumericPrefix(Tail(fields))

\* what np.fromstring(data_string, sep=',') does with text that is not all
\* numbers depends on the numpy build: it raises ValueError, or it returns the
\* numbers read before the text it could not match (DeprecationWarning)
Parsers == {"raises", "partial"}

\* np.fromstring(data_string, sep=','): <<values>>, or <<>> for ValueError
fromstring(data_string, parser) ==
    IF WellFormed(data_string) \/ parser = "partial"
    THEN <<NumericPrefix(data_string)>>
    ELSE <<>>

\* one iteration of the loop of _emit_processed_data: the fields after it and
\* the values it appended to the windows, if any
ProcessOne(p, data_string, parser) ==
    LET parsed == fromstring(data_string, parser)
    IN  IF parsed = <<>> THEN [p |-> p, applied |-> <<>>]
        ELSE LET values == parsed[1]
                 q == IF p.num_channels = 0
                      THEN initialize_buffers(p, Len(values))
                      ELSE p
             IN  IF Len(values) # q.num_channels THEN [p |-> q, applied |-> <<>>]
                 ELSE [p |-> [q EXCEPT
                                !.data_buffers = [i \in 1..q.num_channels |->
                                                    dq_append(q.data_buffers[i], values[i])],
                                !.x_data = dq_append(@, q.current_sample_index),
                                !.current_sample_index = @ + 1],
                       applied |-> <<values>>]

RECURSIVE ProcessAll(_, _, _)
ProcessAll(p, data_to_process, parser) ==
    IF data_to_process = <<>> THEN [p |-> p, applied |-> <<>>]
    ELSE LET one == ProcessOne(p, Head(data_to_process), parser)
             rest == ProcessAll(one.p, Tail(data_to_process), parser)
         IN  [p |-> rest.p, applied |-> one.applied \o rest.applied]

\* the fields after a call, the processed_plot_data_ready emissions, and the
\* values appended to the windows
PlotResult(p, emitted, applied) == [p |-> p, emitted |-> emitted, applied |-> applied]

Emission(p) ==
    <<p.x_data.items, [i \in 1..Len(p.data_buffers) |-> p.data_buffers[i].items]>>

emit_processed_data_always(p, parser) ==
    LET r == ProcessAll([p EXCEPT !.incoming_data_buffer = deque(<<>>, @.maxlen)],
                        p.incoming_data_buffer.items, parser)
    IN  PlotResult(r.p, IF r.p.num_channels > 0 THEN <<Emission(r.p)>> ELSE <<>>,
                   r.applied)

emit_processed_data(p, parser) ==
    LET data_to_process == p.incoming_data_buffer.items
        cleared == [p EXCEPT !.incoming_data_buffer = deque(<<>>, @.maxlen)]
    IN  IF data_to_process = <<>> THEN PlotResult(cleared, <<>>, <<>>)
        ELSE LET r == ProcessAll(cleared, data_to_process, parser)
             IN  PlotResult(r.p,
                            IF r.p.num_channels > 0 THEN <<Emission(r.p)>> ELSE <<>>,
                            r.applied)

set_window_size_keeps_oldest(p, size, parser) ==
    IF size > 0 /\ size # p.window_size
    THEN emit_processed_data(
             [p EXCEPT !.window_size = size,
                       !.data_buffers = [i \in 1..p.num_channels |->
                                           deque(SubSeq(p.data_buffers[i].items, 1,
                                                        Min(size, Len(p.data_buffers[i].items))),
                                                 size)],
                       !.x_data = deque(SubSeq(p.x_data.items, 1,
                                               Min(size, Len(p.x_data.items))), size)],
             parser)
    ELSE PlotResult(p, <<>>, <<>>)

set_window_size_keeps_x(p, size, parser) ==
    IF size > 0 /\ size # p.window_size
    THEN emit_processed_data(
             [p EXCEPT !.window_size = size,
                       !.data_buffers = [i \in 1..p.num_channels |->
                                           deque(p.data_buffers[i].items, size)]],
             parser)
    ELSE PlotResult(p, <<>>, <<>>)

set_window_size(p, size, parser) ==
    IF size > 0 /\ size # p.window_size
    THEN emit_processed_data(
             [p EXCEPT !.window_size = size,
                       !.data_buffers = [i \in 1..p.num_channels |->
                                           deque(p.data_buffers[i].items, size)],
                       !.x_data = deque(p.x_data.items, size)],
             parser)
    ELSE PlotResult(p, <<>>, <<>>)

----------------------------------------------------------------------------
(* SpecMux: the DataBufferer driven by complete calls                      *)

Mux_process_raw_data ==
    \E data_list \in Batches :
        /\ MuxCall(process_raw_data(bufferer, data_list))
        /\ ingested' = ingested \o data_list
        /\ accepted' = IF bufferer.is_recording THEN accepted \o data_list
                       ELSE accepted
        /\ nextId' = nextId + Len(data_list)
        /\ UNCHANGED <<devVars, recVars, sysVars>>

Mux_flush_logger_buffer ==
    /\ MuxCall(flush_logger_buffer(bufferer))
    /\ UNCHANGED <<ingested, accepted, nextId, devVars>>
    /\ UNCHANGED <<recVars, sysVars>>

Mux_flush_recording_buffer ==
    /\ bufferer.recording_timer_active
    /\ MuxCall(flush_recording_buffer(bufferer))
    /\ UNCHANGED <<ingested, accepted, nextId, devVars>>
    /\ UNCHANGED <<recVars, sysVars>>

Mux_set_recording_status ==
    \E status \in BOOLEAN :
        /\ MuxCall(set_recording_status(bufferer, status))
        /\ UNCHANGED <<ingested, accepted, nextId, devVars>>
        /\ UNCHANGED <<recVars, sysVars>>

----------------------------------------------------------------------------
(* SpecRec: the FileWriterWorker driven by complete calls, every I/O call  *)
(* free to fail                                                            *)

IO == {"ok", "fail"}

IsOpen(file) == file # None /\ ~file[1].closed

Env(open, write, partial, close, verify) ==
    [open |-> open, write |-> write, partial |-> partial, close |-> close,
     verify |-> verify]

\* the outcomes of the I/O calls a handler makes; a call it does not reach has
\* outcome "ok"
OpenEnvs == {Env(o, "ok", 0, "ok", "ok") : o \in IO}

CloseEnvs(w) ==
    IF w.end_message_count = <<>> \/ w.file = None THEN {Env("ok", "ok", 0, "ok", "ok")}
    ELSE {Env("ok", "ok", 0, "ok", v) : v \in IO}
         \cup (IF w.file[1].closed THEN {} ELSE {Env("ok", "ok", 0, "fail", "ok")})

AppendEnvs(w, data_lines) ==
    IF ~IsOpen(w.file) THEN {Env("ok", "ok", 0, "ok", "ok")}
    ELSE {Env("ok", "fail", k, "ok", "ok") :
              k \in 0..(Len(AppendOutput(w.file[1], data_lines)) - 1)}
         \cup (IF w.stop_pending /\ data_lines = <<>> THEN CloseEnvs(w)
               ELSE {Env("ok", "ok", 0, "ok", "ok")})

Counts == 0..MaxCount

\* a complete FileWriterWorker call: its effect, and the bookkeeping about it
RecCall(op, data, r) ==
    /\ writer' = r.w
    /\ disk' = r.disk
    /\ lastCall' = [op |-> op, data |-> data, file_before |-> writer.file,
                    pending_before |-> writer.stop_pending,
                    finished |-> r.finished,
                    raised |-> r.raised, io_error |-> r.io_error,
                    written |-> r.written]

\* session: the file's length at the last successful start, the records
\* appended since, whether an I/O call has failed since
SessionAfterStart(r, file_name) ==
    IF r.io_error
    THEN [session EXCEPT !.io_error = TRUE]
    ELSE [len_at_start |-> Len(FileLines(disk, file_name)),
          records |-> 0, io_error |-> FALSE]

SessionAfterAppend(r, data_lines) ==
    IF r.io_error THEN [session EXCEPT !.io_error = TRUE]
    ELSE IF IsOpen(writer.file)
    THEN [session EXCEPT !.records = @ + Len(data_lines)]
    ELSE session

SessionAfterFinalize(r) ==
    IF r.io_error THEN [session EXCEPT !.io_error = TRUE] ELSE session

Rec_start_recording ==
    \E file_name \in Paths, start_message_count \in Counts, env \in OpenEnvs :
        LET r == FileWriterWorker_start_recording(writer, disk, file_name,
                                                  start_message_count, env)
        IN  /\ RecCall("start_recording", <<>>, r)
            /\ session' = SessionAfterStart(r, file_name)
            /\ UNCHANGED <<nextId, devVars, muxVars, sysVars>>

Rec_append_data ==
    \E data_lines \in Batches \cup {<<>>} : \E env \in AppendEnvs(writer, data_lines) :
        LET r == append_data(writer, disk, data_lines, env)
        IN  /\ RecCall("append_data", data_lines, r)
            /\ session' = SessionAfterAppend(r, data_lines)
            /\ nextId' = nextId + Len(data_lines)
            /\ UNCHANGED <<devVars, muxVars, sysVars>>

Rec_stop_recording ==
    \E end_message_count \in Counts :
        /\ RecCall("stop_recording", <<>>,
                   RecResult(FileWriterWorker_stop_recording(writer, end_message_count),
                             disk, <<>>, 0, FALSE, <<>>, FALSE))
        /\ session' = session
        /\ UNCHANGED <<nextId, devVars, muxVars, sysVars>>

Rec_finalize_recording ==
    \E env \in CloseEnvs(writer) :
        LET r == finalize_recording(writer, disk, env)
        IN  /\ RecCall("finalize_recording", <<>>, r)
            /\ session' = SessionAfterFinalize(r)
            /\ UNCHANGED <<nextId, devVars, muxVars, sysVars>>

\* a file as the user may have left it: absent, empty, or populated by an
\* earlier recording with or without its header
OldRecord == MkRecord(0, 1)

InitialFiles == {<<>>, << <<>> >>, << <<OldRecord>> >>, << <<Header(1), OldRecord>> >>}

NoCall ==
    [op |-> "none", data |-> <<>>, file_before |-> None, pending_before |-> FALSE,
     finished |-> <<>>, raised |-> FALSE,
     io_error |-> FALSE, written |-> <<>>]

NoSession == [len_at_start |-> 0, records |-> 0, io_error |-> FALSE]

InitRec ==
    /\ writer = FileWriterWorker_init
    /\ disk \in [Paths -> InitialFiles]
    /\ lastCall = NoCall
    /\ session = NoSession

InitRecIdle ==
    /\ InitRec
    /\ disk = [p \in Paths |-> <<>>]

NoWorkerCall == [op |-> "none", io_error |-> FALSE, port_status |-> <<>>, accepted |-> FALSE]

InitLinkIdle ==
    /\ worker = SerialWorker_init
    /\ link = [text |-> <<>>, pending |-> <<>>, framed |-> <<>>, emitted |-> <<>>,
               wkQ |-> <<>>, last |-> NoWorkerCall, failed |-> FALSE,
               read_after_failure |-> FALSE, cut_session |-> 0]

NoPlotCall ==
    [op |-> "none", size |-> 0, emitted |-> <<>>, applied |-> <<>>, data |-> <<>>,
     dropped |-> 0]

InitPlotIdle ==
    /\ plot = PlotDataProcessor_init(MaxWindow)
    /\ view = [parser |-> "raises", fed |-> 0, established |-> 0, good |-> <<>>,
               resized |-> FALSE, last |-> NoPlotCall]

MainWindow_init ==
    [current_message_count |-> 0, is_recording |-> FALSE,
     start_record_button |-> TRUE, stop_record_button |-> FALSE,
     connect_button |-> TRUE, disconnect_button |-> FALSE]

InitSys ==
    /\ gui = MainWindow_init
    /\ passed = [start |-> 0, end |-> 0, stopped |-> FALSE, sessions |-> 0]
    /\ bufQ = <<>>
    /\ guiQ = <<>>
    /\ wrQ = <<>>
    /\ bufPc = "idle"
    /\ bufLocal = <<>>

InitMux ==
    /\ bufferer = DataBufferer_init
    /\ loggerOut = <<>>
    /\ recordingOut = <<>>
    /\ ingested = <<>>
    /\ accepted = <<>>
    /\ nextId = 1
    /\ arity \in 1..MaxArity

NextMux ==
    \/ Mux_process_raw_data
    \/ Mux_flush_logger_buffer
    \/ Mux_flush_recording_buffer
    \/ Mux_set_recording_status

Init == InitMux /\ InitRecIdle /\ InitSys /\ InitLinkIdle /\ InitPlotIdle

SpecMux == Init /\ [][NextMux]_vars

\* SpecSink: the DataBufferer with every slot, clear_recording_buffer included
Mux_clear_recording_buffer ==
    /\ MuxCall(clear_recording_buffer(bufferer))
    /\ UNCHANGED <<ingested, accepted, nextId, devVars>>
    /\ UNCHANGED <<recVars, sysVars>>

NextSink ==
    \/ Mux_process_raw_data
    \/ Mux_flush_logger_buffer
    \/ Mux_flush_recording_buffer
    \/ Mux_set_recording_status
    \/ Mux_clear_recording_buffer

SpecSink == Init /\ [][NextSink]_vars

NextRec ==
    \/ Rec_start_recording
    \/ Rec_append_data
    \/ Rec_stop_recording
    \/ Rec_finalize_recording

InitAnyFile == InitMux /\ InitRec /\ InitSys /\ InitLinkIdle /\ InitPlotIdle

SpecRec == InitAnyFile /\ [][NextRec]_vars

----------------------------------------------------------------------------
(* Spec: the GUI thread, the bufferer thread and the writer thread.        *)
(* MainWindow calls the DataBufferer and the FileWriterWorker directly,    *)
(* from the GUI thread (main_window.py 268-282); data_received,            *)
(* recording_data_ready and finalize_file_writing cross threads and are    *)
(* queued to the receiver's thread.  A GUI handler runs as one step; the   *)
(* handlers of the bufferer thread are cut where a GUI call can fall       *)
(* between two of their statements.  I/O succeeds in this specification.   *)

OkEnv == Env("ok", "ok", 0, "ok", "ok")

\* the sequence counter of the framer: records emitted since connection
SequenceCounter == nextId - 1

\* message_count_updated(count), queued to MainWindow._update_message_count
message_count_updated(q, count) == Append(q, count)

\* SerialWorker._emit_buffered_data: one batch leaves the emission buffer
Worker_emit_buffered_data ==
    \E data_buffer \in Batches :
        /\ nextId' = nextId + Len(data_buffer)
        /\ bufQ' = Append(bufQ, data_buffer)
        /\ guiQ' = message_count_updated(guiQ, SequenceCounter + Len(data_buffer))
        /\ UNCHANGED <<devVars, muxVars, recVars, gui, passed, wrQ, bufPc, bufLocal>>

MainWindow_update_message_count ==
    /\ guiQ # <<>>
    /\ gui' = [gui EXCEPT !.current_message_count = Head(guiQ)]
    /\ guiQ' = Tail(guiQ)
    /\ UNCHANGED <<nextId, devVars, muxVars, recVars, passed, bufQ, wrQ, bufPc, bufLocal>>

MainWindow_start_recording ==
    /\ gui.start_record_button
    /\ passed.sessions < MaxSessions
    /\ \E file_name \in Paths \cup {""} :
        IF file_name = ""
        THEN UNCHANGED vars
        ELSE LET d1 == clear_recording_buffer(bufferer).d
                 start_message_count == gui.current_message_count
                 r == FileWriterWorker_start_recording(
                          writer, disk, file_name, start_message_count, OkEnv)
                 d2 == set_recording_status(d1, TRUE).d
             IN  /\ gui' = [gui EXCEPT !.is_recording = TRUE,
                                       !.start_record_button = FALSE,
                                       !.stop_record_button = TRUE]
                 /\ bufferer' = d2
                 /\ RecCall("start_recording", <<>>, r)
                 /\ session' = SessionAfterStart(r, file_name)
                 /\ passed' = [passed EXCEPT !.start = start_message_count,
                                             !.stopped = FALSE,
                                             !.sessions = @ + 1]
                 /\ accepted' = <<>>
                 /\ UNCHANGED <<nextId, devVars, loggerOut, recordingOut, ingested,
                                bufQ, guiQ, wrQ, bufPc, bufLocal>>

\* the queued calls one emission of recording_data_ready makes
QueuedAppends(batches) == [i \in 1..Len(batches) |-> <<"append_data", batches[i]>>]

MainWindow_stop_recording ==
    /\ gui.stop_record_button
    /\ LET m == set_recording_status(bufferer, FALSE)
           end_message_count == gui.current_message_count
       IN  /\ gui' = [gui EXCEPT !.is_recording = FALSE,
                                 !.start_record_button = TRUE,
                                 !.stop_record_button = FALSE]
           /\ bufferer' = m.d
           /\ RecCall("stop_recording", <<>>,
                      RecResult(FileWriterWorker_stop_recording(writer, end_message_count),
                                disk, <<>>, 0, FALSE, <<>>, FALSE))
           /\ session' = session
           /\ wrQ' = wrQ \o QueuedAppends(m.recording_data_ready)
                         \o << <<"finalize_recording", <<>> >> >>
           /\ passed' = [passed EXCEPT !.end = end_message_count, !.stopped = TRUE]
           /\ UNCHANGED <<nextId, devVars, loggerOut, recordingOut, ingested, accepted,
                          bufQ, guiQ, bufPc, bufLocal>>

\* process_raw_data up to the test of _is_recording (lines 27-28)
Buf_process_raw_data_test ==
    /\ bufPc = "idle"
    /\ bufQ # <<>>
    /\ bufQ' = Tail(bufQ)
    /\ bufferer' = [bufferer EXCEPT !.logger_buffer = @ \o Head(bufQ)]
    /\ IF bufferer.is_recording
       THEN /\ bufPc' = "extend"
            /\ bufLocal' = Head(bufQ)
            /\ accepted' = accepted \o Head(bufQ)
       ELSE UNCHANGED <<bufPc, bufLocal, accepted>>
    /\ UNCHANGED <<nextId, devVars, loggerOut, recordingOut, ingested, recVars,
                   gui, passed, guiQ, wrQ>>

\* process_raw_data, the extend of the recording buffer (line 29)
Buf_process_raw_data_extend ==
    /\ bufPc = "extend"
    /\ bufferer' = [bufferer EXCEPT !.recording_buffer = @ \o bufLocal]
    /\ bufPc' = "idle"
    /\ bufLocal' = <<>>
    /\ UNCHANGED <<nextId, devVars, loggerOut, recordingOut, ingested, accepted,
                   recVars, gui, passed, bufQ, guiQ, wrQ>>

Buf_flush_logger_buffer ==
    /\ bufPc = "idle"
    /\ bufferer.logger_buffer # <<>>
    /\ bufferer' = flush_logger_buffer(bufferer).d
    /\ UNCHANGED <<nextId, devVars, loggerOut, recordingOut, ingested, accepted,
                   recVars, sysVars>>

\* _flush_recording_buffer on the timer, the copy (lines 40-41)
Buf_flush_recording_copy ==
    /\ bufPc = "idle"
    /\ bufferer.recording_timer_active
    /\ bufferer.recording_buffer # <<>>
    /\ bufLocal' = bufferer.recording_buffer
    /\ bufPc' = "clear"
    /\ UNCHANGED <<nextId, devVars, muxVars, recVars, gui, passed, bufQ, guiQ, wrQ>>

\* _flush_recording_buffer on the timer, the clear (line 42)
Buf_flush_recording_clear ==
    /\ bufPc = "clear"
    /\ bufferer' = [bufferer EXCEPT !.recording_buffer = <<>>]
    /\ bufPc' = "emit"
    /\ UNCHANGED <<nextId, devVars, loggerOut, recordingOut, ingested, accepted,
                   recVars, gui, passed, bufQ, guiQ, wrQ, bufLocal>>

\* _flush_recording_buffer on the timer, the emit (line 43)
Buf_flush_recording_emit ==
    /\ bufPc = "emit"
    /\ wrQ' = wrQ \o QueuedAppends(<<bufLocal>>)
    /\ bufPc' = "idle"
    /\ bufLocal' = <<>>
    /\ UNCHANGED <<nextId, devVars, muxVars, recVars, gui, passed, bufQ, guiQ>>

Wr_append_data ==
    /\ wrQ # <<>>
    /\ Head(wrQ)[1] = "append_data"
    /\ LET data_lines == Head(wrQ)[2]
           r == append_data(writer, disk, data_lines, OkEnv)
       IN  /\ RecCall("append_data", data_lines, r)
           /\ session' = SessionAfterAppend(r, data_lines)
    /\ wrQ' = Tail(wrQ)
    /\ UNCHANGED <<nextId, devVars, muxVars, gui, passed, bufQ, guiQ, bufPc, bufLocal>>

Wr_finalize_recording ==
    /\ wrQ # <<>>
    /\ Head(wrQ)[1] = "finalize_recording"
    /\ LET r == finalize_recording(writer, disk, OkEnv)
       IN  /\ RecCall("finalize_recording", <<>>, r)
           /\ session' = SessionAfterFinalize(r)
    /\ wrQ' = Tail(wrQ)
    /\ UNCHANGED <<nextId, devVars, muxVars, gui, passed, bufQ, guiQ, bufPc, bufLocal>>

\* the default recording path is a new file name (main_window.py 146)
Next ==
    \/ Worker_emit_buffered_data
    \/ MainWindow_update_message_count
    \/ MainWindow_start_recording
    \/ MainWindow_stop_recording
    \/ Buf_process_raw_data_test
    \/ Buf_process_raw_data_extend
    \/ Buf_flush_logger_buffer
    \/ Buf_flush_recording_copy
    \/ Buf_flush_recording_clear
    \/ Buf_flush_recording_emit
    \/ Wr_append_data
    \/ Wr_finalize_recording

Spec == Init /\ [][Next]_vars

----------------------------------------------------------------------------
(* SpecFramer: the SerialWorker in its thread, fed a text cut into reads   *)
(* of any size, and the MainWindow's port controls.  connect_port and      *)
(* disconnect_port are queued to the worker thread (main_window.py         *)
(* 194-195), port_status is queued to the GUI thread, send is called       *)
(* directly (main_window.py 220).  Opening, reading and writing may fail.  *)

pipeVars == <<nextId, arity, muxVars, recVars, passed, bufQ, wrQ, bufPc, bufLocal>>

RECURSIVE SeqsUpTo(_, _)
SeqsUpTo(S, n) ==
    IF n = 0 THEN {<<>>}
    ELSE LET shorter == SeqsUpTo(S, n - 1)
         IN  shorter \cup {Append(s, x) : s \in {t \in shorter : Len(t) = n - 1}, x \in S}

Texts == SeqsUpTo(Chars, MaxStream) \ {<<>>}

InitLink ==
    /\ worker = SerialWorker_init
    /\ \E text \in Texts :
         link = [text |-> text, pending |-> EncodeAll(text), framed |-> <<>>,
                 emitted |-> <<>>, wkQ |-> <<>>, last |-> NoWorkerCall,
                 failed |-> FALSE, read_after_failure |-> FALSE, cut_session |-> 0]

\* a SerialWorker call: its fields, its emissions queued to the GUI thread
WorkerCall(op, r, io_error, lk) ==
    /\ Len(guiQ) + Len(r.port_status) <= MaxQueued + 1
    /\ worker' = r.w
    /\ guiQ' = guiQ \o r.port_status
    /\ link' = [lk EXCEPT
                  !.pending = SubSeq(@, r.taken + 1, Len(@)),
                  !.framed = @ \o SubSeq(r.w.data_buffer, Len(worker.data_buffer) + 1,
                                         Len(r.w.data_buffer)),
                  !.emitted = @ \o Flatten(r.data_received),
                  !.last = [op |-> op, io_error |-> io_error,
                            port_status |-> r.port_status,
                            accepted |-> op = "connect_port" /\ ~worker.is_running],
                  !.cut_session =
                      IF op = "disconnect_port" \/ (op = "read_serial_data" /\ io_error)
                      THEN IF IsOpen(writer.file) /\ ~writer.stop_pending
                           THEN passed.sessions ELSE 0
                      ELSE @]
    /\ UNCHANGED <<gui, pipeVars, plotVars>>

MainWindow_connect_serial ==
    /\ gui.connect_button
    /\ Len(link.wkQ) < MaxQueued
    /\ link' = [link EXCEPT !.wkQ = Append(@, "connect_port")]
    /\ UNCHANGED <<worker, gui, guiQ, pipeVars, plotVars>>

MainWindow_disconnect_clicked ==
    /\ gui.disconnect_button
    /\ Len(link.wkQ) < MaxQueued
    /\ link' = [link EXCEPT !.wkQ = Append(@, "disconnect_port")]
    /\ UNCHANGED <<worker, gui, guiQ, pipeVars, plotVars>>

MainWindow_send_command ==
    /\ gui.disconnect_button
    /\ \E io \in IO :
         WorkerCall("send", SerialWorker_send(worker, io),
                    worker.serial_port = "open" /\ io # "ok", link)

MainWindow_on_port_status_changed ==
    /\ guiQ # <<>>
    /\ gui' = [gui EXCEPT !.connect_button = ~Head(guiQ)[1],
                          !.disconnect_button = Head(guiQ)[1]]
    /\ guiQ' = Tail(guiQ)
    /\ UNCHANGED <<worker, link, pipeVars, plotVars>>

Wk_connect_port ==
    /\ link.wkQ # <<>>
    /\ Head(link.wkQ) = "connect_port"
    /\ \E io \in IO :
         WorkerCall("connect_port", SerialWorker_connect_port(worker, io),
                    ~worker.is_running /\ io # "ok",
                    [link EXCEPT !.wkQ = Tail(@), !.failed = FALSE,
                                 !.read_after_failure = FALSE])

Wk_disconnect_port ==
    /\ link.wkQ # <<>>
    /\ Head(link.wkQ) = "disconnect_port"
    /\ WorkerCall("disconnect_port", SerialWorker_disconnect_port(worker), FALSE,
                  [link EXCEPT !.wkQ = Tail(@)])

\* _read_timer.timeout: any number of the pending bytes has arrived
Wk_read_serial_data ==
    /\ worker.read_timer = "active"
    /\ \E io \in IO, in_waiting \in 0..Len(link.pending) :
         /\ io # "ok" => in_waiting = 0
         /\ WorkerCall("read_serial_data",
                       SerialWorker_read_serial_data(worker, link.pending, in_waiting, io),
                       worker.serial_port = "open" /\ io # "ok",
                       [link EXCEPT
                          !.failed = @ \/ (worker.serial_port = "open" /\ io # "ok"),
                          !.read_after_failure =
                              @ \/ (link.failed /\ worker.serial_port = "open")])

\* _emit_timer.timeout
Wk_emit_buffered_data ==
    /\ worker.emit_timer = "active"
    /\ worker.data_buffer # <<>>
    /\ WorkerCall("emit_buffered_data", SerialWorker_emit_buffered_data(worker),
                  FALSE, link)

InitFramer == InitMux /\ arity = 1 /\ InitRecIdle /\ InitSys /\ InitLink /\ InitPlotIdle

NextFramer ==
    \/ MainWindow_connect_serial
    \/ MainWindow_disconnect_clicked
    \/ MainWindow_send_command
    \/ MainWindow_on_port_status_changed
    \/ Wk_connect_port
    \/ Wk_disconnect_port
    \/ Wk_read_serial_data
    \/ Wk_emit_buffered_data

SpecFramer == InitFramer /\ [][NextFramer]_vars

\* SpecLines: the same port with a device that sends short lines of
\* single-byte text, several of them between two ticks of the emit timer
LineTexts == SeqsUpTo({"a", LF}, MaxLineStream) \ {<<>>}

InitLines ==
    /\ InitMux /\ arity = 1 /\ InitRecIdle /\ InitSys /\ InitPlotIdle
    /\ worker = SerialWorker_init
    /\ \E text \in LineTexts :
         link = [text |-> text, pending |-> EncodeAll(text), framed |-> <<>>,
                 emitted |-> <<>>, wkQ |-> <<>>, last |-> NoWorkerCall,
                 failed |-> FALSE, read_after_failure |-> FALSE, cut_session |-> 0]

SpecLines == InitLines /\ [][NextFramer]_vars

----------------------------------------------------------------------------
(* SpecPlot: the PlotDataProcessor in its thread: data_received batches,   *)
(* the 50 ms tick and set_window_size, each a complete call.               *)

\* the record numbered id with n fields whose field j is not a number
BadRecord(id, n, j) == [MkRecord(id, n) EXCEPT ![j] = <<"bad">>]

RecordsFor(id) ==
    {MkRecord(id, n) : n \in 1..MaxArity}
        \cup UNION {{BadRecord(id, n, j) : j \in 1..n} : n \in 1..MaxArity}

RECURSIVE PlotBatchesOf(_, _)
PlotBatchesOf(first, n) ==
    IF n = 0 THEN {<<>>}
    ELSE {Append(b, r) : b \in PlotBatchesOf(first, n - 1),
                         r \in RecordsFor(first + n - 1)}

PlotBatches(first) ==
    UNION {PlotBatchesOf(first, n) : n \in 1..Min(MaxBatch, MaxSamples - first + 1)}

\* the channel count the first well-formed record fixes, and the values of
\* the well-formed records of that many fields, in order
RECURSIVE Parsed(_, _)
Parsed(established, data_to_process) ==
    IF data_to_process = <<>> THEN [established |-> established, values |-> <<>>]
    ELSE LET rec == Head(data_to_process)
             est == IF WellFormed(rec) /\ established = 0 THEN Len(rec)
                    ELSE established
             rest == Parsed(est, Tail(data_to_process))
         IN  [established |-> rest.established,
              values |-> (IF WellFormed(rec) /\ Len(rec) = est
                          THEN <<NumericPrefix(rec)>> ELSE <<>>) \o rest.values]

InitPlot ==
    /\ \E w \in 1..MaxWindow : plot = PlotDataProcessor_init(w)
    /\ \E parser \in Parsers :
         view = [parser |-> parser, fed |-> 0, established |-> 0, good |-> <<>>,
                 resized |-> FALSE, last |-> NoPlotCall]

\* the staged records a call took out of the staging buffer
Drained(before, after) ==
    IF after.incoming_data_buffer.items = <<>>
    THEN before.incoming_data_buffer.items ELSE <<>>

\* a call of the tick handler or of set_window_size
PlotCall(op, size, r) ==
    LET staged == Parsed(view.established, Drained(plot, r.p))
    IN  /\ plot' = r.p
        /\ view' = [view EXCEPT
                      !.established = staged.established,
                      !.good = @ \o staged.values,
                      !.resized = @ \/ r.p.window_size # plot.window_size,
                      !.last = [NoPlotCall EXCEPT !.op = op, !.size = size,
                                                  !.emitted = r.emitted,
                                                  !.applied = r.applied]]
        /\ UNCHANGED <<gui, guiQ, pipeVars, portVars>>

Plot_process_incoming_data ==
    /\ view.fed < MaxSamples
    /\ \E data_list \in PlotBatches(view.fed + 1) :
         /\ plot' = process_incoming_data(plot, data_list)
         /\ view' = [view EXCEPT
                       !.fed = @ + Len(data_list),
                       !.last = [NoPlotCall EXCEPT
                                   !.op = "process_incoming_data",
                                   !.data = data_list,
                                   !.dropped =
                                       Len(plot.incoming_data_buffer.items)
                                         + Len(data_list)
                                         - Len(plot'.incoming_data_buffer.items)]]
    /\ UNCHANGED <<gui, guiQ, pipeVars, portVars>>

\* _process_timer.timeout
Plot_emit_processed_data ==
    PlotCall("emit_processed_data", 0, emit_processed_data(plot, view.parser))

Plot_set_window_size ==
    \E size \in 0..MaxWindow :
        PlotCall("set_window_size", size, set_window_size(plot, size, view.parser))

InitWindow == InitMux /\ arity = 1 /\ InitRecIdle /\ InitSys /\ InitLinkIdle /\ InitPlot

NextPlot ==
    \/ Plot_process_incoming_data
    \/ Plot_emit_processed_data
    \/ Plot_set_window_size

SpecPlot == InitWindow /\ [][NextPlot]_vars

\* SpecStage: the same calls on a PlotDataProcessor whose staging buffer has
\* the capacity MaxStaged in place of 4000, so that ingest can overflow it
InitStage ==
    /\ InitMux /\ arity = 1 /\ InitRecIdle /\ InitSys /\ InitLinkIdle
    /\ \E w \in 1..MaxWindow :
         plot = [PlotDataProcessor_init(w) EXCEPT
                   !.incoming_data_buffer = deque(<<>>, Min(IncomingMax, MaxStaged))]
    /\ \E parser \in Parsers :
         view = [parser |-> parser, fed |-> 0, established |-> 0, good |-> <<>>,
                 resized |-> FALSE, last |-> NoPlotCall]

SpecStage == InitStage /\ [][NextPlot]_vars

----------------------------------------------------------------------------
(* SpecPort: the port controls together with the recording controls and    *)
(* the writer thread; the device sends nothing.                            *)

NextPort ==
    \/ MainWindow_connect_serial
    \/ MainWindow_disconnect_clicked
    \/ MainWindow_on_port_status_changed
    \/ Wk_connect_port
    \/ Wk_disconnect_port
    \/ Wk_read_serial_data
    \/ MainWindow_start_recording
    \/ MainWindow_stop_recording
    \/ Wr_finalize_recording

SpecPort == Init /\ [][NextPort]_vars

----------------------------------------------------------------------------
(* Properties of the DataBufferer (SpecMux)                                *)

\* C2: every record ingested while the recording sink is active is emitted on
\* recording_data_ready exactly once and in ingestion order, and none is left
\* in the buffer once set_recording_status(False) has completed.
C2_FlushOnStop ==
    /\ Flatten(recordingOut) \o bufferer.recording_buffer = accepted
    /\ ~bufferer.is_recording => bufferer.recording_buffer = <<>>

\* the sink was deactivated after a timer flush and a flush on stop
C2_Witness ==
    /\ ~bufferer.is_recording
    /\ ~bufferer.recording_timer_active
    /\ Len(recordingOut) >= 2
    /\ Flatten(recordingOut) = accepted

\* C10: while no record was ingested with the recording sink active (only the
\* display sink is active), the emitted logger batches followed by the records
\* still buffered are the ingested records in their order: each record is in
\* exactly one emitted batch.
C10_DisplayOrder ==
    accepted = <<>> => Flatten(loggerOut) \o bufferer.logger_buffer = ingested

\* three records went out in two or more display batches
C10_Witness ==
    /\ accepted = <<>>
    /\ Len(loggerOut) >= 2
    /\ bufferer.logger_buffer = <<>>
    /\ Len(ingested) >= 3

----------------------------------------------------------------------------
(* Properties of the full system (Spec)                                    *)

\* C1: no recording batch reaches append_data while no file is open, and when
\* a finalize closes the file no emitted batch is still waiting for append_data.
C1_DrainBeforeFinalize ==
    /\ lastCall.op = "append_data" => IsOpen(lastCall.file_before)
    /\ (lastCall.op = "finalize_recording" /\ IsOpen(lastCall.file_before))
          => \A i \in 1..Len(wrQ) : wrQ[i][1] # "append_data"

\* C3: for every session, end_sequence - start_sequence as passed to the
\* Recorder is the number of records the recording sink accepted in it.
C3_SequenceDelta ==
    passed.stopped => passed.end - passed.start = Len(accepted)

----------------------------------------------------------------------------
(* Properties of the FileWriterWorker (SpecRec)                            *)

ThePath == CHOOSE p \in Paths : TRUE

\* the data lines of a file as finalize_stop's reader counts them
DataLineCount(lines) ==
    IF Len(lines) > 0 /\ StartsWithChannel(lines[1]) THEN Len(lines) - 1
    ELSE Len(lines)

Expected == writer.end_message_count[1] - writer.start_message_count[1]

FinalizedOpenSession ==
    /\ lastCall.op = "finalize_recording"
    /\ IsOpen(lastCall.file_before)
    /\ lastCall.pending_before

\* C4: start(path, S); N records appended; stop(S + N); finalize(), no I/O
\* error: the file gained exactly N data lines (and a header iff it was empty
\* at start; the header comes with the first record) and the outcome is Verified.
C4_RoundTrip ==
    (/\ FinalizedOpenSession
     /\ ~session.io_error
     /\ Expected = session.records)
    => /\ lastCall.finished = <<Status(TRUE, "Recording stopped", 0, session.records)>>
       /\ Len(FileLines(disk, ThePath)) =
              session.len_at_start + session.records
              + (IF session.len_at_start = 0 /\ session.records > 0 THEN 1 ELSE 0)

\* C5: finalize() on an open session without I/O error reports Verified iff the
\* file's data lines equal end_sequence - start_sequence, else LossDetected
\* naming both counts; and when records counted by end_sequence were never
\* appended the outcome is LossDetected with a nonzero deficit.
C5_LossDetected ==
    (/\ FinalizedOpenSession
     /\ ~session.io_error)
    => LET actual == DataLineCount(FileLines(disk, ThePath))
       IN  /\ lastCall.finished =
                 IF actual = Expected
                 THEN <<Status(TRUE, "Recording stopped", 0, actual)>>
                 ELSE <<Status(FALSE, "Recording stopped with data loss",
                               Expected, actual)>>
           /\ session.records < Expected
                 => /\ lastCall.finished[1][1] = FALSE
                    /\ Expected - actual > 0

AppendOrStopOnOpenFile ==
    /\ lastCall.op \in {"append_data", "stop_recording"}
    /\ IsOpen(lastCall.file_before)

EmptyBatchWhilePending ==
    /\ lastCall.op = "append_data"
    /\ lastCall.data = <<>>
    /\ lastCall.pending_before

BatchIsOnDisk ==
    LET lines == FileLines(disk, ThePath)
        n == Len(lastCall.data)
    IN  /\ Len(lines) >= n
        /\ SubSeq(lines, Len(lines) - n + 1, Len(lines)) = lastCall.data

\* C6 as stated: no stop and no append, an empty batch while stop is pending
\* included, closes the file, and every appended record is written (the calls
\* whose I/O fails aside).
C6_OnlyFinalizeCloses ==
    (AppendOrStopOnOpenFile /\ ~lastCall.io_error)
    => /\ IsOpen(writer.file)
       /\ lastCall.op = "append_data" => BatchIsOnDisk

\* C6 amended: between a successful start and finalize, no stop and no append
\* of a non-empty batch closes the file, whether or not its I/O fails; an
\* empty batch received while stop is pending runs finalize_stop; every record
\* of a batch appended without I/O error is written to the file.
C6_OnlyFinalizeOrEmptyBatchCloses ==
    /\ (AppendOrStopOnOpenFile /\ ~EmptyBatchWhilePending)
          => /\ IsOpen(writer.file)
             /\ writer.file[1].path = lastCall.file_before[1].path
    /\ (AppendOrStopOnOpenFile /\ EmptyBatchWhilePending /\ ~lastCall.io_error)
          => writer.file = None
    /\ (AppendOrStopOnOpenFile /\ lastCall.op = "append_data" /\ ~lastCall.io_error)
          => BatchIsOnDisk

\* a non-empty batch was appended while stop was pending and the file is open
C6_Witness ==
    /\ lastCall.op = "append_data"
    /\ lastCall.pending_before
    /\ IsOpen(lastCall.file_before)
    /\ lastCall.data # <<>>
    /\ ~lastCall.io_error
    /\ IsOpen(writer.file)

\* C7: after an I/O failure in start, append, close or verify a failure status
\* is emitted and the session is closed: no file handle is held and the
\* stop-pending flag is clear, so that the next append is rejected.
C7_ErrorClosesSession ==
    lastCall.io_error
    => /\ Len(lastCall.finished) = 1
       /\ lastCall.finished[1][1] = FALSE
       /\ writer.file = None
       /\ ~writer.stop_pending

\* C8: finalize() never raises and surfaces exactly one finished event, in
\* every state it is called in.
C8_FinalizeAlwaysReports ==
    lastCall.op = "finalize_recording"
    => /\ ~lastCall.raised
       /\ Len(lastCall.finished) = 1

HeaderLines(lines) == {i \in 1..Len(lines) : StartsWithChannel(lines[i])}

\* C9: a header is only ever the first line of a file; an append writes one
\* only as the first line of a file that was empty, together with data; a
\* session started on a populated file writes none.
C9_HeaderOnce ==
    /\ \A p \in Paths : HeaderLines(FileLines(disk, p)) \subseteq {1}
    /\ (lastCall.op = "append_data" /\ HeaderLines(lastCall.written) # {})
          => /\ HeaderLines(lastCall.written) = {1}
             /\ lastCall.data # <<>>
             /\ lastCall.file_before[1].pos = 0
             /\ SubSeq(FileLines(disk, ThePath), 1, Len(lastCall.written))
                    = lastCall.written
    /\ (lastCall.op = "append_data" /\ session.len_at_start > 0)
          => HeaderLines(lastCall.written) = {}

\* a second session appended to the file whose two-field header the first wrote
C9_Witness ==
    /\ lastCall.op = "append_data"
    /\ lastCall.written # <<>>
    /\ session.len_at_start >= 2
    /\ FileLines(disk, ThePath)[1] = Header(2)
    /\ ~lastCall.io_error

----------------------------------------------------------------------------
(* Properties of the SerialWorker (SpecFramer)                             *)

\* the newline-terminated lines of a text, stripped, the empty ones removed
Lines(text) ==
    LET segments == split(text)
    IN  StrippedNonEmpty(SubSeq(segments, 1, Len(segments) - 1))

\* C11: however the text was cut into reads, once all of it has been read the
\* records appended to the emission buffer are the text's newline-terminated
\* lines, stripped, without the empty ones, in order.
C11_ChunkInvariance == link.pending = <<>> => link.framed = Lines(link.text)

ReadFailed == link.last.op = "read_serial_data" /\ link.last.io_error

\* C16: a failed read emits port_status with is_open = false, closes the port
\* and stops the read timer and the emit timer; from then until a connect_port
\* request is handled the port stays closed and no read touches it.
C16_ReadFailureDisconnects ==
    /\ ReadFailed =>
         /\ link.last.port_status # <<>>
         /\ \A i \in 1..Len(link.last.port_status) : ~link.last.port_status[i][1]
         /\ worker.serial_port = "closed"
         /\ worker.read_timer = "stopped"
         /\ worker.emit_timer = "stopped"
    /\ link.failed =>
         /\ ~link.read_after_failure
         /\ worker.serial_port = "closed"
         /\ worker.read_timer = "stopped"

\* a read failed while bytes were still waiting, and the GUI has since been
\* told and has asked for nothing yet
C16_Witness ==
    /\ link.failed
    /\ link.pending # <<>>
    /\ gui.connect_button
    /\ guiQ = <<>>
    /\ link.wkQ = <<>>

\* C17: a failed write in send() emits a status with is_open = false and leaves
\* the worker disconnected: not running, port closed, timers stopped.
C17_SendFailureDisconnects ==
    (link.last.op = "send" /\ link.last.io_error) =>
        /\ link.last.port_status # <<>>
        /\ ~link.last.port_status[1][1]
        /\ ~worker.is_running
        /\ worker.serial_port # "open"
        /\ worker.read_timer # "active"
        /\ worker.emit_timer # "active"

----------------------------------------------------------------------------
(* Properties of the port and recording controls (Spec, SpecPort)          *)

\* C12: the value MainWindow passes to the Recorder in start_recording and in
\* stop_recording is the sequence counter's value at the time of the call.
C12_CounterAtCall ==
    [][/\ passed'.sessions # passed.sessions => passed'.start = SequenceCounter
       /\ (passed'.stopped /\ ~passed.stopped) => passed'.end = SequenceCounter]_vars

Recording == IsOpen(writer.file) /\ ~writer.stop_pending

Quiescent == link.wkQ = <<>> /\ guiQ = <<>> /\ wrQ = <<>>

\* C15: when the device was disconnected during a recording session and every
\* queued call has been handled, that session is no longer in Recording.
C15_DisconnectFinalizes ==
    (Quiescent /\ link.cut_session > 0 /\ link.cut_session = passed.sessions)
        => ~Recording

----------------------------------------------------------------------------
(* Properties of the PlotDataProcessor (SpecPlot)                          *)

Column(vectors, i) == [k \in 1..Len(vectors) |-> vectors[k][i]]

Indices(first, n) == [k \in 1..n |-> first + k - 1]

Resize == view'.last.op = "set_window_size" /\ view'.last.size > 0

C14_ResizeReemits ==
    [][(Resize /\ plot.num_channels > 0 /\ view'.last.size # plot.window_size)
          => view'.last.emitted = <<Emission(plot')>>]_vars

\* C18: every channel window is as long as the x-axis sequence, and none is
\* longer than the configured window size.
C18_WindowLengths ==
    /\ Len(plot.x_data.items) <= plot.window_size
    /\ \A i \in 1..Len(plot.data_buffers) :
         Len(plot.data_buffers[i].items) = Len(plot.x_data.items)

\* full windows that have evicted a sample, after a resize
C18_Witness ==
    /\ plot.num_channels > 0
    /\ view.resized
    /\ Len(plot.x_data.items) = plot.window_size
    /\ plot.current_sample_index > plot.window_size

\* C19: with the window size unchanged, after k well-formed records of the
\* established channel count every channel window holds the values of the last
\* min(k, w) of them in order, and the x-axis holds as many consecutive sample
\* indices.
C19_WindowHoldsLastRecords ==
    (~view.resized /\ view.good # <<>>) =>
        LET w == plot.window_size
            k == Len(view.good)
            x == plot.x_data.items
        IN  /\ plot.num_channels = view.established
            /\ \A i \in 1..view.established :
                 plot.data_buffers[i].items = LastN(Column(view.good, i), w)
            /\ Len(x) = Min(k, w)
            /\ \A j \in 1..(Len(x) - 1) : x[j + 1] = x[j] + 1

\* C20: a call that processes the staged records appends exactly the values of
\* the well-formed records of the established channel count, one sample index
\* each; any other record changes nothing.
C20_BadRecordChangesNothing ==
    [][view'.last.op \in {"emit_processed_data", "set_window_size"} =>
         LET parsed == Parsed(view.established, Drained(plot, plot')).values
         IN  /\ view'.last.applied = parsed
             /\ plot'.current_sample_index = plot.current_sample_index + Len(parsed)]_vars

\* C21: the channel count is the field count of the first well-formed record;
\* once it is established no call changes it, and no tick clears or shortens a
\* window or the x-axis.
C21_ChannelCountFixedOnce ==
    [][/\ plot'.num_channels = view'.established
       /\ plot.num_channels > 0 =>
            /\ plot'.num_channels = plot.num_channels
            /\ view'.last.op = "emit_processed_data" =>
                 /\ Len(plot'.x_data.items) >= Len(plot.x_data.items)
                 /\ \A i \in 1..plot.num_channels :
                      Len(plot'.data_buffers[i].items)
                          >= Len(plot.data_buffers[i].items)]_vars

\* C22: a tick that finds the staging buffer empty emits nothing and changes
\* no field of the processor.
C22_EmptyTickIsSilent ==
    [][(view'.last.op = "emit_processed_data"
          /\ plot.incoming_data_buffer.items = <<>>)
         => (view'.last.emitted = <<>> /\ plot' = plot)]_vars

\* a tick that emitted nothing although windows hold samples
C22_Witness ==
    /\ view.last.op = "emit_processed_data"
    /\ view.last.emitted = <<>>
    /\ plot.num_channels > 0
    /\ plot.x_data.items # <<>>

\* C23: the staging buffer never holds more than its capacity; an ingest that
\* would exceed it leaves the most recent records, in their order.
C23_StagingBounded ==
    /\ [](Len(plot.incoming_data_buffer.items) <= plot.incoming_data_buffer.maxlen)
    /\ [][view'.last.op = "process_incoming_data" =>
            plot'.incoming_data_buffer.items =
                LastN(plot.incoming_data_buffer.items \o view'.last.data,
                      plot.incoming_data_buffer.maxlen)]_vars

\* an ingest that dropped the oldest staged record
C23_Witness ==
    /\ view.last.op = "process_incoming_data"
    /\ view.last.dropped > 0
    /\ Len(plot.incoming_data_buffer.items) = plot.incoming_data_buffer.maxlen

----------------------------------------------------------------------------
(* Properties of the SerialWorker's buffers (SpecLines, SpecFramer)        *)

\* C24: the outbound buffer of framed lines never holds more than a fixed
\* capacity (MaxOutbound), whatever number of reads happens between two ticks
\* of the emit timer.
C24_OutboundBounded == Len(worker.data_buffer) <= MaxOutbound

\* C25: the partial-line buffer holds no newline; it is the text that follows
\* the last newline of all the text received so far.
C25_PartialLineIsTail ==
    LET bytes == EncodeAll(link.text)
        received == SubSeq(bytes, 1, Len(bytes) - Len(link.pending))
        parts == split(decode(received))
    IN  /\ \A i \in 1..Len(worker.line_buffer) : worker.line_buffer[i] # LF
        /\ worker.line_buffer = parts[Len(parts)]

\* C28: when connect_port succeeds, the partial-line buffer is empty, so no
\* text read on an earlier connection enters a record of the new one.
C28_ConnectStartsClean ==
    (/\ link.last.op = "connect_port"
     /\ link.last.accepted
     /\ link.last.port_status # <<>>
     /\ link.last.port_status[1][1])
        => worker.line_buffer = <<>>

----------------------------------------------------------------------------
(* Properties of session restarts (Spec) and of the DataBufferer with      *)
(* clear_recording_buffer (SpecSink)                                       *)

\* C26: while the GUI shows a recording session, the writer holds that
\* session's file open and no stop is pending on it: a finalize or a stop
\* left over from the session before never closes or stops the new session.
C26_RestartKeepsRecording == gui.is_recording => Recording

\* is_sub(s, t): s is a subsequence of t
RECURSIVE is_sub(_, _)
is_sub(s, t) ==
    IF s = <<>> THEN TRUE
    ELSE IF t = <<>> THEN FALSE
    ELSE IF Head(s) = Head(t) THEN is_sub(Tail(s), Tail(t))
    ELSE is_sub(s, Tail(t))

\* C27: after complete calls of every DataBufferer slot, the recording buffer
\* is empty whenever the recording sink is inactive, the recording flush
\* timer runs exactly when the sink is active, and the records delivered to
\* the recorder or still buffered for it were all ingested while it was active.
C27_InactiveSinkHoldsNothing ==
    /\ ~bufferer.is_recording => bufferer.recording_buffer = <<>>
    /\ bufferer.recording_timer_active <=> bufferer.is_recording
    /\ is_sub(Flatten(recordingOut) \o bufferer.recording_buffer, accepted)

\* a record was ingested while the sink was inactive, a later session
\* delivered a record, and a buffered record was cleared
C27_Witness ==
    /\ ~bufferer.is_recording
    /\ Len(ingested) > Len(accepted)
    /\ recordingOut # <<>>
    /\ Len(Flatten(recordingOut)) < Len(accepted)
    /\ ingested[1] \notin Range(accepted)

====
